---- MODULE Spec2Model ----
(***************************************************************************)
(* Model of the inference core of oc5-deploy-ml:                           *)
(*   src/src/oc5_ml_deployment/api/model_service.py                        *)
(*     class ModelService (load, is_loaded, get_model_info,                *)
(*     preprocess_input, predict, predict_batch, _get_risk_level, explain) *)
(*     and the process-wide registry get_model_service();                  *)
(*   src/src/oc5_ml_deployment/api/main.py                                 *)
(*     predict_single (POST /api/v1/predict).                              *)
(*                                                                         *)
(* Specifications.                                                         *)
(*   Spec            the calls made on one ModelService whose two files    *)
(*                   stay as they are for the life of the process          *)
(*   SpecRegistry    callers of get_model_service(), interleaved           *)
(*   SpecPreprocess  preprocess_input over every raw mapping               *)
(*   SpecPredict     predict and predict_single over the classifier's      *)
(*                   outputs                                               *)
(*   SpecExplain     explain over models of 3, 5 and 7 transformed         *)
(*                   features and their contributions, and over a          *)
(*                   pipeline of one step                                  *)
(*   SpecDeterminism the life cycle of one loaded service, with an         *)
(*                   observer of repeated predict calls                    *)
(*   SpecConcurrent  callers entering and leaving calls on one loaded      *)
(*                   service, interleaved                                  *)
(*   SpecReload      load() called again on one ModelService after its two *)
(*                   files were replaced on disk                           *)
(*                                                                         *)
(* Conventions.                                                            *)
(*   - Python None is the record None.                                     *)
(*   - A Python dict is a sequence of <<key, value>> pairs with distinct   *)
(*     keys (dicts keep insertion order, and pd.DataFrame([data]) takes    *)
(*     its columns in that order).                                         *)
(*   - A float probability p is the integer p * Scale (fixed point), a     *)
(*     percentage is kept over the same denominator: pct = 100 * p.        *)
(*   - A call's outcome is a record [kind |-> "ok", ...] or                *)
(*     [kind |-> <the exception class raised>].                            *)
(***************************************************************************)
EXTENDS Integers, Sequences, FiniteSets, TLC

VARIABLES
    model_file,       \* what joblib.load(self.model_path) finds
    metadata_file,    \* what open(self.metadata_path) / json.load finds
    svc,              \* the ModelService instance: model, metadata, feature_columns, explainer
    load_ret,         \* <<what the latest svc.load() returned>>, <<>> before any
    last,             \* the last call made on svc and its outcome
    history,          \* observer: the first predict since load() and the calls after it
    frame,            \* the call each concurrent caller of svc is in, if any
    origin,           \* observer: which load() call assigned each field of svc
    _model_service,   \* the module global: 0 for None, else an index into heap
    heap,             \* the ModelService instances get_model_service() created
    pc,               \* where each caller of get_model_service() stands
    self,             \* the instance each caller's load() call is bound to
    ret,              \* what each caller's latest get_model_service() returned (0: nothing yet)
    load_calls        \* how many times load() has been entered through the registry

files == <<model_file, metadata_file>>
svcvars == <<svc, load_ret, last, history, frame, origin>>
regvars == <<_model_service, heap, pc, self, ret, load_calls>>
vars == <<model_file, metadata_file, svc, load_ret, last, history, frame, origin,
          _model_service, heap, pc, self, ret, load_calls>>

None == [tag |-> "None"]

----------------------------------------------------------------------------
(* Bounds of the model *)

\* values a raw feature may take: 0..MaxValue
MaxValue == 1
\* longest list handed to predict_batch
MaxBatch == 2
\* concurrent callers of get_model_service()
NumCallers == 2
\* classifier outputs within Near units of each decision boundary are all drawn
Near == 2
\* and Coarse + 1 outputs spread evenly over [0, 1]
Coarse == 20
\* contribution rows of wide models are read off a pool at strides 1..MaxStride
MaxStride == 3

\* fixed-point denominator of probabilities (resolution 10^-5)
Scale == 10 ^ 5

----------------------------------------------------------------------------
(* The artifacts the two paths may hold *)

\* a value no preprocessing stage can coerce (a string where a number is due)
BadValue == 0 - 1

\* an estimator scores a row by one split on its first column: leaf[1] when
\* that column is 0, leaf[2] otherwise; each leaf is the pair <<p_stay, p_leave>>.
\* phi[k] is the per-feature contribution array the attribution algorithm
\* yields at leaf k; per_class says whether it comes as one array per class.
Estimator(family, n, leaf, phi, per_class) ==
    [tag |-> "Estimator", family |-> family, n_features_in |-> n,
     leaf |-> leaf, phi |-> phi, per_class |-> per_class]

\* a preprocessing stage: output column j copies input column src[j];
\* names is what get_feature_names_out() returns (None: the stage has no
\* such method), names_raise: the method exists and raises;
\* pandas_out: transform returns a DataFrame carrying the names.
Transformer(src, names, names_raise, pandas_out) ==
    [tag |-> "Transformer", src |-> src, names |-> names,
     names_raise |-> names_raise, pandas_out |-> pandas_out]

Pipeline(steps) == [tag |-> "Pipeline", steps |-> steps]

Pair(p_leave) == <<Scale - p_leave, p_leave>>

XGB3 == Estimator("XGBClassifier", 3,
                  <<Pair(23400), Pair(60000)>>,
                  <<(<<0 - 41237, 1500, 0>>), <<52004, 0 - 1500, 25>>>>, FALSE)
LogReg3 == Estimator("LogisticRegression", 3,
                     <<Pair(40000), Pair(50000)>>,
                     <<(<<0, 0, 0>>), <<0, 0, 0>>>>, FALSE)
Identity3 == Transformer(<<1, 2, 3>>, <<"age", "revenu_mensuel", "genre">>, FALSE, FALSE)

ModelAbsent == [tag |-> "absent"]
PipelineXGB == Pipeline(<<Identity3, XGB3>>)
PipelineLogReg == Pipeline(<<Identity3, LogReg3>>)

\* the contents of model_path in the life-cycle specification
ModelFiles == {ModelAbsent, PipelineXGB, PipelineLogReg, XGB3, LogReg3}

\* a metadata file: absent/unparsable, the JSON value null, or a JSON object
\* with the top-level keys `keys`
MetaAbsent == [tag |-> "absent"]
MetaNull == [tag |-> "null"]
MetaDict(keys, numeric, categorical) ==
    [tag |-> "dict", keys |-> keys,
     performance_cv |-> [accuracy_mean |-> 87650],
     features |-> [numeric |-> numeric, categorical |-> categorical]]

AllMetaKeys == {"model_version", "training_date", "performance_cv", "features"}
MetaGood == MetaDict(AllMetaKeys, <<"age", "revenu_mensuel">>, <<"genre">>)
MetaNoFeatures == MetaDict(AllMetaKeys \ {"features"}, <<>>, <<>>)
MetaNoPerformance == MetaDict(AllMetaKeys \ {"performance_cv"},
                              <<"age", "revenu_mensuel">>, <<"genre">>)

MetadataFiles == {MetaAbsent, MetaNull, MetaGood, MetaNoFeatures, MetaNoPerformance}

----------------------------------------------------------------------------
(* ModelService *)

\* ModelService.__init__
NewModelService ==
    [model |-> None, metadata |-> None, feature_columns |-> None, explainer |-> None]

\* a step of load(): the service after it, and whether it raised
Step(s, raised) == [svc |-> s, raised |-> raised]

\* self.model = joblib.load(self.model_path)
LoadModelStep(s, mf) ==
    IF mf.tag = "absent" THEN Step(s, TRUE)
    ELSE Step([s EXCEPT !.model = mf], FALSE)

\* with open(self.metadata_path) as f: self.metadata = json.load(f)
LoadMetadataStep(s, md) ==
    CASE md.tag = "absent" -> Step(s, TRUE)
      [] md.tag = "null" -> Step([s EXCEPT !.metadata = None], FALSE)
      [] OTHER -> Step([s EXCEPT !.metadata = md], FALSE)

_extract_feature_info(s) ==
    IF s.metadata = None THEN Step(s, FALSE)
    ELSE IF "features" \notin s.metadata.keys THEN Step(s, TRUE)   \* KeyError
    ELSE LET numeric_features == s.metadata.features.numeric
             categorical_features == s.metadata.features.categorical
         IN Step([s EXCEPT !.feature_columns =
                      [numeric |-> numeric_features,
                       categorical |-> categorical_features,
                       all |-> numeric_features \o categorical_features]], FALSE)

\* hasattr(self.model, 'named_steps')
IsPipeline(m) == m.tag = "Pipeline"

\* shap.TreeExplainer(model) raises for a model that is no tree ensemble
TreeSupported(est) == est.family = "XGBClassifier"

FinalEstimator(m) == IF IsPipeline(m) THEN m.steps[Len(m.steps)] ELSE m

InitExplainerStep(s) ==
    LET final_estimator == FinalEstimator(s.model)
    IN IF TreeSupported(final_estimator)
       THEN Step([s EXCEPT !.explainer =
                      [tag |-> "TreeExplainer", model |-> final_estimator]], FALSE)
       ELSE Step(s, TRUE)

\* ModelService.load: the service afterwards and the value returned
load(s, mf, md) ==
    LET a == LoadModelStep(s, mf)
        b == LoadMetadataStep(a.svc, md)
        c == _extract_feature_info(b.svc)
        d == InitExplainerStep(c.svc)
    IN CASE a.raised -> [svc |-> a.svc, ret |-> FALSE]
         [] b.raised -> [svc |-> b.svc, ret |-> FALSE]
         [] c.raised -> [svc |-> c.svc, ret |-> FALSE]
         [] d.raised -> [svc |-> d.svc, ret |-> FALSE]
         [] OTHER -> [svc |-> d.svc, ret |-> TRUE]

\* mutant: only the model is looked at
\* the fields a load() call assigns: those before its first exception
\* (_extract_feature_info assigns nothing when the metadata is None)
Fields == {"model", "metadata", "feature_columns", "explainer"}
load_assigns(s, mf, md) ==
    LET a == LoadModelStep(s, mf)
        b == LoadMetadataStep(a.svc, md)
        c == _extract_feature_info(b.svc)
        d == InitExplainerStep(c.svc)
    IN IF a.raised THEN {}
       ELSE IF b.raised THEN {"model"}
       ELSE IF c.raised THEN {"model", "metadata"}
       ELSE {"model", "metadata"}
            \cup (IF b.svc.metadata # None THEN {"feature_columns"} ELSE {})
            \cup (IF d.raised THEN {} ELSE {"explainer"})

\* the observer of load() calls: for each field 0 when no load() has
\* assigned it, else the rank (oldest first) of the call that did among the
\* calls some field still comes from
NoOrigin == [f \in Fields |-> 0]
Stamp(o, assigned) ==
    LET latest == Cardinality(Fields) + 1
        stamped == [f \in Fields |-> IF f \in assigned THEN latest ELSE o[f]]
    IN [f \in Fields |->
           IF stamped[f] = 0 THEN 0
           ELSE Cardinality({stamped[g] : g \in Fields} \cap (1..stamped[f]))]

\* mutant: only the model is looked at
is_loaded_ModelOnly(s) == s.model # None

is_loaded(s) == s.model # None /\ s.metadata # None

----------------------------------------------------------------------------
(* Python dicts, DataFrames and outcomes *)

DictKeys(d) == {d[i][1] : i \in 1..Len(d)}
DictGet(d, k) == d[CHOOSE i \in 1..Len(d) : d[i][1] = k][2]
SeqRange(q) == {q[i] : i \in 1..Len(q)}
Reversed(q) == [i \in 1..Len(q) |-> q[Len(q) + 1 - i]]

Ok(v) == [kind |-> "ok", value |-> v]
Raise(e) == [kind |-> e]
\* ValueError(f"Missing required columns: {missing_cols}")
RaiseMissing(cols) == [kind |-> "ValueError", missing |-> cols]

\* a one-row frame (or, is_df = FALSE, a one-row array without column names)
Frame(columns, row, is_df) == [columns |-> columns, row |-> row, is_df |-> is_df]

\* round(x, n): x to the nearest multiple of unit, ties to even
Abs(v) == IF v < 0 THEN 0 - v ELSE v
round(v, unit) ==
    LET q == Abs(v) \div unit
        r == Abs(v) % unit
        m == IF 2 * r > unit \/ (2 * r = unit /\ q % 2 = 1) THEN q + 1 ELSE q
    IN IF v < 0 THEN 0 - (m * unit) ELSE m * unit

----------------------------------------------------------------------------
(* The fitted objects' own methods (scikit-learn / XGBoost / SHAP) *)

HasBadValue(X) == \E i \in 1..Len(X) : X[i] = BadValue

\* transformer.transform(X)
transform(t, X) ==
    IF HasBadValue(X.row) \/ (\E j \in 1..Len(t.src) : t.src[j] > Len(X.row))
    THEN Raise("ValueError")
    ELSE Ok(Frame(IF t.pandas_out /\ t.names # None THEN t.names ELSE <<>>,
                  [j \in 1..Len(t.src) |-> X.row[t.src[j]]],
                  t.pandas_out))

\* the frame after stages[1..n], or the first exception
RECURSIVE TransformThrough(_, _, _)
TransformThrough(stages, n, X) ==
    IF n = 0 THEN Ok(X)
    ELSE LET before == TransformThrough(stages, n - 1, X)
         IN IF before.kind # "ok" THEN before
            ELSE transform(stages[n], before.value)

\* which leaf of the estimator a row falls in, or 0 when it cannot be scored
Leaf(est, X) ==
    IF Len(X.row) # est.n_features_in \/ HasBadValue(X.row) THEN 0
    ELSE IF X.row[1] = 0 THEN 1 ELSE 2

\* estimator.predict_proba(X)[0]
EstimatorProba(est, X) ==
    IF Leaf(est, X) = 0 THEN Raise("ValueError") ELSE Ok(est.leaf[Leaf(est, X)])

\* self.model.predict_proba(df)[0]
predict_proba(m, df) ==
    IF IsPipeline(m)
    THEN LET X == TransformThrough(m.steps, Len(m.steps) - 1, df)
         IN IF X.kind # "ok" THEN X ELSE EstimatorProba(FinalEstimator(m), X.value)
    ELSE EstimatorProba(m, df)

\* self.explainer.shap_values(X): one array of per-feature rows, or a list of
\* two (class 0 the negation of class 1)
Negated(q) == [i \in 1..Len(q) |-> 0 - q[i]]
shap_values(explainer, X) ==
    LET est == explainer.model
    IN IF Leaf(est, X) = 0 THEN Raise("ValueError")
       ELSE LET phi == est.phi[Leaf(est, X)]
            IN IF est.per_class
               THEN Ok([is_list |-> TRUE, arrays |-> <<(<<Negated(phi)>>), <<phi>>>>])
               ELSE Ok([is_list |-> FALSE, arrays |-> <<phi>>])

----------------------------------------------------------------------------
(* ModelService: queries, validation, prediction *)

\* unit of round(x, 3) on a value kept over Scale
Decimals3 == Scale \div (10 ^ 3)
\* unit of round(x, 4)
Decimals4 == Scale \div (10 ^ 4)

get_model_info(s) ==
    IF ~is_loaded(s) THEN Ok([keys |-> {}])
    ELSE IF "performance_cv" \notin s.metadata.keys THEN Raise("KeyError")
    ELSE IF s.feature_columns = None THEN Raise("TypeError")
    ELSE Ok([keys |-> {"model_version", "training_date",
                       "performance_metrics", "features_required"},
             model_version |-> "model_version" \in s.metadata.keys,
             training_date |-> "training_date" \in s.metadata.keys,
             \* the other four metrics are rounded the same way
             performance_metrics |->
                 [accuracy |-> round(s.metadata.performance_cv.accuracy_mean, Decimals3)],
             features_required |-> [numeric |-> s.feature_columns.numeric,
                                    categorical |-> s.feature_columns.categorical]])

\* mutant: only the first missing column is reported
preprocess_input_FirstMissing(s, data) ==
    IF s.feature_columns = None THEN Raise("TypeError")
    ELSE LET all == s.feature_columns.all
             missing_cols == SeqRange(all) \ DictKeys(data)
             first == CHOOSE i \in 1..Len(all) :
                          /\ all[i] \in missing_cols
                          /\ \A j \in 1..(i - 1) : all[j] \notin missing_cols
         IN IF missing_cols # {} THEN RaiseMissing({all[first]})
            ELSE Ok(Frame(all, [i \in 1..Len(all) |-> DictGet(data, all[i])], TRUE))

\* mutant: the required columns are kept in the order the raw mapping has them
preprocess_input_RawOrder(s, data) ==
    IF s.feature_columns = None THEN Raise("TypeError")
    ELSE LET all == s.feature_columns.all
             missing_cols == SeqRange(all) \ DictKeys(data)
             IsRequired(kv) == kv[1] \in SeqRange(all)
             kept == SelectSeq(data, IsRequired)
         IN IF missing_cols # {} THEN RaiseMissing(missing_cols)
            ELSE Ok(Frame([i \in 1..Len(kept) |-> kept[i][1]],
                          [i \in 1..Len(kept) |-> kept[i][2]], TRUE))

preprocess_input(s, data) ==
    IF s.feature_columns = None THEN Raise("TypeError")
    ELSE LET all == s.feature_columns.all
             missing_cols == SeqRange(all) \ DictKeys(data)
         IN IF missing_cols # {} THEN RaiseMissing(missing_cols)
            ELSE Ok(Frame(all, [i \in 1..Len(all) |-> DictGet(data, all[i])], TRUE))

\* mutant: the lower boundary is taken as inclusive
_get_risk_level_Inclusive(probability_leave) ==
    IF probability_leave <= 40 * Scale THEN "LOW"
    ELSE IF probability_leave < 60 * Scale THEN "MEDIUM"
    ELSE "HIGH"

_get_risk_level(probability_leave) ==
    IF probability_leave < 40 * Scale THEN "LOW"
    ELSE IF probability_leave < 60 * Scale THEN "MEDIUM"
    ELSE "HIGH"

\* the tuple predict returns
Prediction(will_leave, prob_leave, prob_stay, risk_level) ==
    [will_leave |-> will_leave, probability_leave |-> prob_leave,
     probability_stay |-> prob_stay, risk_level |-> risk_level]

\* predict with another guard, or with the decision boundary made strict
PredictFrom(s, data, guard, strict) ==
    IF guard THEN Raise("RuntimeError")
    ELSE LET df == preprocess_input(s, data)
         IN IF df.kind # "ok" THEN df
            ELSE LET probabilities == predict_proba(s.model, df.value)
                 IN IF probabilities.kind # "ok" THEN probabilities
                    ELSE LET p == probabilities.value
                         IN Ok(Prediction(IF strict THEN 2 * p[2] > Scale
                                          ELSE 2 * p[2] >= Scale,
                                          p[2] * 100, p[1] * 100,
                                          _get_risk_level(p[2] * 100)))

\* mutant: predict takes explain's guard
predict_NeedsExplainer(s, data) ==
    PredictFrom(s, data, ~is_loaded(s) \/ s.explainer = None, FALSE)

\* mutant: the decision boundary is exclusive
predict_StrictBoundary(s, data) ==
    PredictFrom(s, data, ~is_loaded(s), TRUE)

\* mutant: probability_stay is derived as 100 - probability_leave
predict_DerivedStay(s, data) ==
    LET r == PredictFrom(s, data, ~is_loaded(s), FALSE)
    IN IF r.kind # "ok" THEN r
       ELSE Ok([r.value EXCEPT !.probability_stay = 100 * Scale - r.value.probability_leave])

\* mutant: the band is taken from the probability of staying
predict_BandsStay(s, data) ==
    LET r == PredictFrom(s, data, ~is_loaded(s), FALSE)
    IN IF r.kind # "ok" THEN r
       ELSE Ok([r.value EXCEPT !.risk_level = _get_risk_level(r.value.probability_stay)])

predict(s, data) ==
    IF ~is_loaded(s) THEN Raise("RuntimeError")
    ELSE LET df == preprocess_input(s, data)
         IN IF df.kind # "ok" THEN df
            ELSE LET probabilities == predict_proba(s.model, df.value)
                 IN IF probabilities.kind # "ok" THEN probabilities
                    ELSE LET prob_stay == probabilities.value[1] * 100
                             prob_leave == probabilities.value[2] * 100
                             will_leave == 2 * probabilities.value[2] >= Scale
                             risk_level == _get_risk_level(prob_leave)
                         IN Ok(Prediction(will_leave, prob_leave, prob_stay, risk_level))

\* mutant: each result is put in front of the earlier ones
RECURSIVE PredictEach_Prepend(_, _, _)
PredictEach_Prepend(s, data_list, n) ==
    IF n = 0 THEN Ok(<<>>)
    ELSE LET results == PredictEach_Prepend(s, data_list, n - 1)
         IN IF results.kind # "ok" THEN results
            ELSE LET result == predict(s, data_list[n])
                 IN IF result.kind # "ok" THEN result
                    ELSE Ok(<<result.value>> \o results.value)

\* the loop of predict_batch over data_list[1..n]: the results so far, or the
\* first exception
RECURSIVE PredictEach(_, _, _)
PredictEach(s, data_list, n) ==
    IF n = 0 THEN Ok(<<>>)
    ELSE LET results == PredictEach(s, data_list, n - 1)
         IN IF results.kind # "ok" THEN results
            ELSE LET result == predict(s, data_list[n])
                 IN IF result.kind # "ok" THEN result
                    ELSE Ok(Append(results.value, result.value))

\* mutant: predict_batch leaves the loaded check to predict
predict_batch_NoGuard(s, data_list) ==
    PredictEach(s, data_list, Len(data_list))

predict_batch(s, data_list) ==
    IF ~is_loaded(s) THEN Raise("RuntimeError")
    ELSE PredictEach(s, data_list, Len(data_list))

----------------------------------------------------------------------------
(* api/main.py: POST /api/v1/predict *)

\* unit of round(x, 2)
Decimals2 == Scale \div (10 ^ 2)

\* raise HTTPException(status_code=..., detail=...)
HTTPException(status_code, detail) == [status_code |-> status_code, detail |-> detail]

\* PredictionResult: probabilities are validated ge=0, le=100
PredictionResult(will_leave, probability_leave, probability_stay, risk_level) ==
    IF \/ probability_leave < 0 \/ probability_leave > 100 * Scale
       \/ probability_stay < 0 \/ probability_stay > 100 * Scale
    THEN Raise("ValueError")
    ELSE Ok(Prediction(will_leave, probability_leave, probability_stay, risk_level))

\* str(e) of a ValueError: the message preprocess_input builds, or whatever
\* text the library that raised it put there
str(e) ==
    IF "missing" \in DOMAIN e THEN "Missing required columns: {...}"
    ELSE "<message of the library's ValueError>"

\* predict_single(employee), employee already validated as EmployeeFeatures
predict_single(model_service, employee_data) ==
    IF ~is_loaded(model_service) THEN HTTPException(503, "Model not loaded")
    ELSE LET r == predict(model_service, employee_data)
             prediction ==
                 IF r.kind # "ok" THEN r
                 ELSE PredictionResult(r.value.will_leave,
                                       round(r.value.probability_leave, Decimals2),
                                       round(r.value.probability_stay, Decimals2),
                                       r.value.risk_level)
         IN IF prediction.kind = "ok"
            THEN [status_code |-> 200,
                  prediction |-> prediction.value,
                  model_version |-> "model_version" \in model_service.metadata.keys]
            ELSE IF prediction.kind = "ValueError"
            THEN HTTPException(422, str(prediction))
            ELSE HTTPException(500, "Failed to generate prediction")

----------------------------------------------------------------------------
(* ModelService.explain *)

\* feature_importance[:5]
TopK == 5

\* [f"feature_{i}" for i in range(n_features)]
PositionalNames ==
    <<"feature_0", "feature_1", "feature_2", "feature_3",
      "feature_4", "feature_5", "feature_6", "feature_7">>
FallbackNames(n) == SubSeq(PositionalNames, 1, n)

\* mutant: the values are taken in the opposite order to the names
Zip_Misaligned(names, values) ==
    LET n == IF Len(names) < Len(values) THEN Len(names) ELSE Len(values)
    IN [i \in 1..n |-> <<names[i], values[n + 1 - i]>>]

\* list(zip(feature_names, shap_values_leave))
Zip(names, values) ==
    LET n == IF Len(names) < Len(values) THEN Len(names) ELSE Len(values)
    IN [i \in 1..n |-> <<names[i], values[i]>>]

\* mutant: the sort key is the signed value
RECURSIVE SortBySignedDesc(_)
SortBySignedDesc(q) ==
    IF q = <<>> THEN <<>>
    ELSE LET init == SortBySignedDesc(SubSeq(q, 1, Len(q) - 1))
             x == q[Len(q)]
             k == Cardinality({i \in 1..Len(init) : init[i][2] >= x[2]})
         IN SubSeq(init, 1, k) \o <<x>> \o SubSeq(init, k + 1, Len(init))

\* list.sort(key=lambda x: abs(x[1]), reverse=True): stable, descending
RECURSIVE SortByAbsDesc(_)
SortByAbsDesc(q) ==
    IF q = <<>> THEN <<>>
    ELSE LET init == SortByAbsDesc(SubSeq(q, 1, Len(q) - 1))
             x == q[Len(q)]
             k == Cardinality({i \in 1..Len(init) : Abs(init[i][2]) >= Abs(x[2])})
         IN SubSeq(init, 1, k) \o <<x>> \o SubSeq(init, k + 1, Len(init))

\* mutant: zero counts as an increase
Impact_NoNeutral(shap_value) ==
    IF shap_value >= 0 THEN "increases risk" ELSE "decreases risk"

Impact(shap_value) ==
    IF shap_value > 0 THEN "increases risk"
    ELSE IF shap_value < 0 THEN "decreases risk"
    ELSE "neutral"

\* mutant: the list is not cut
TopFeatures_All(feature_importance) ==
    [i \in 1..Len(feature_importance) |->
        [feature |-> feature_importance[i][1],
         shap_value |-> round(feature_importance[i][2], Decimals4),
         impact |-> Impact(feature_importance[i][2])]]

TopFeatures(feature_importance) ==
    LET n == IF Len(feature_importance) < TopK THEN Len(feature_importance) ELSE TopK
    IN [i \in 1..n |->
           [feature |-> feature_importance[i][1],
            shap_value |-> round(feature_importance[i][2], Decimals4),
            impact |-> Impact(feature_importance[i][2])]]

\* lines 246-272: the frame the final estimator sees, with its column names
TransformedFrame(m, df) ==
    IF ~IsPipeline(m) THEN Ok(df)
    ELSE LET transformed_df == TransformThrough(m.steps, Len(m.steps) - 1, df)
         IN IF transformed_df.kind # "ok" THEN transformed_df
            ELSE IF Len(m.steps) < 2 THEN Raise("IndexError")   \* steps[-2]
            ELSE LET last_stage == m.steps[Len(m.steps) - 1]
                     feature_names ==
                         IF last_stage.tag = "Transformer" /\ last_stage.names # None
                                /\ ~last_stage.names_raise
                         THEN last_stage.names ELSE None
                     X == transformed_df.value
                 IN IF X.is_df THEN Ok(X)
                    ELSE IF feature_names # None
                    THEN IF Len(feature_names) # Len(X.row) THEN Raise("ValueError")
                         ELSE Ok(Frame(feature_names, X.row, TRUE))
                    ELSE Ok(Frame(FallbackNames(Len(X.row)), X.row, TRUE))

explain(s, data) ==
    IF ~is_loaded(s) \/ s.explainer = None THEN Raise("RuntimeError")
    ELSE LET df == preprocess_input(s, data)
         IN IF df.kind # "ok" THEN df
            ELSE LET transformed_df == TransformedFrame(s.model, df.value)
                 IN IF transformed_df.kind # "ok" THEN transformed_df
                    ELSE LET sv == shap_values(s.explainer, transformed_df.value)
                         IN IF sv.kind # "ok" THEN sv
                            ELSE LET shap_values_leave ==
                                         IF sv.value.is_list THEN sv.value.arrays[2][1]
                                         ELSE sv.value.arrays[1]
                                     feature_names == transformed_df.value.columns
                                     feature_importance ==
                                         SortByAbsDesc(Zip(feature_names, shap_values_leave))
                                 IN Ok(TopFeatures(feature_importance))

----------------------------------------------------------------------------
(* The calls made on one service: the life-cycle specification *)

ValidInput(age, revenu_mensuel, genre) ==
    <<(<<"age", age>>), <<"revenu_mensuel", revenu_mensuel>>, <<"genre", genre>>>>

\* the raw mappings handed to the service: complete ones, one in another key
\* order, one with an extra key, incomplete ones, one with a value of the
\* wrong type
SampleInputs ==
    {ValidInput(a, MaxValue, 0) : a \in 0..MaxValue}
    \cup {<<(<<"genre", 0>>), <<"revenu_mensuel", 1>>, <<"age", 1>>>>,
          <<(<<"age", 0>>), <<"departement", 1>>, <<"revenu_mensuel", 1>>, <<"genre", 0>>>>,
          <<(<<"revenu_mensuel", 1>>), <<"genre", 0>>>>,
          <<>>,
          ValidInput(BadValue, 0, 0)}

\* the lists handed to predict_batch: of two complete mappings (falling in
\* different leaves), an incomplete one and one with a value of the wrong type
BatchInputs ==
    {ValidInput(0, MaxValue, 0),
     ValidInput(1, MaxValue, 0),
     <<(<<"revenu_mensuel", 1>>), <<"genre", 0>>>>,
     ValidInput(BadValue, 0, 0)}

SampleBatches == UNION {[1..n -> BatchInputs] : n \in 0..MaxBatch}

Callers == 1..NumCallers

\* no caller is inside a call on svc
Idle == [at |-> "idle"]
NoCalls == [c \in Callers |-> Idle]

\* nobody has called get_model_service() yet
RegistryIdle ==
    /\ _model_service = 0
    /\ heap = <<>>
    /\ pc = [c \in Callers |-> "idle"]
    /\ self = [c \in Callers |-> 0]
    /\ ret = [c \in Callers |-> 0]
    /\ load_calls = 0

\* the observer of repeated predict calls: switched off, or holding the first
\* predict call made since the latest load() and the kinds of call made after
\* it, of those in Between (a predict counts when its input differs from the
\* first one's)
Between == {"predict", "predict_batch", "explain", "is_loaded", "get_model_info"}
Untracked == [on |-> FALSE]
NoHistory == [on |-> TRUE, first |-> None, between |-> {}]
Track(h, call) ==
    IF ~h.on THEN h
    ELSE IF call.op = "load" THEN NoHistory
    ELSE IF h.first = None
    THEN IF call.op = "predict" THEN [h EXCEPT !.first = call] ELSE h
    ELSE IF call.op = "predict" /\ call.data = h.first.data THEN h
    ELSE [h EXCEPT !.between = @ \cup ({call.op} \cap Between)]

Init ==
    /\ model_file \in ModelFiles
    /\ metadata_file \in MetadataFiles
    /\ svc = NewModelService
    /\ load_ret = <<>>
    /\ last = [op |-> "__init__"]
    /\ history = Untracked
    /\ frame = NoCalls
    /\ origin = NoOrigin
    /\ RegistryIdle

\* a call that only reads the service: what it was and what came out
Called(call) ==
    /\ last' = call
    /\ history' = Track(history, call)
    /\ UNCHANGED <<files, origin, frame, svc, load_ret, regvars>>

Load ==
    LET r == load(svc, model_file, metadata_file)
    IN /\ svc' = r.svc
       /\ load_ret' = <<r.ret>>
       /\ last' = [op |-> "load", out |-> Ok(r.ret)]
       /\ history' = Track(history, last')
       /\ origin' = Stamp(origin, load_assigns(svc, model_file, metadata_file))
       /\ UNCHANGED <<files, frame, regvars>>

IsLoaded ==
    Called([op |-> "is_loaded", out |-> Ok(is_loaded(svc))])

GetModelInfo ==
    Called([op |-> "get_model_info", out |-> get_model_info(svc)])

PreprocessInput ==
    \E data \in SampleInputs :
        Called([op |-> "preprocess_input", data |-> data,
                out |-> preprocess_input(svc, data)])

\* mutant: predict leaves the service's column list reversed
Predict_ReordersColumns ==
    \E data \in SampleInputs :
        /\ last' = [op |-> "predict", data |-> data, out |-> predict(svc, data)]
        /\ history' = Track(history, last')
        /\ svc' = IF svc.feature_columns = None THEN svc
                  ELSE [svc EXCEPT !.feature_columns.all = Reversed(@)]
        /\ UNCHANGED <<files, origin, frame, load_ret, regvars>>

Predict ==
    \E data \in SampleInputs :
        Called([op |-> "predict", data |-> data, out |-> predict(svc, data)])

PredictBatch ==
    \E data_list \in SampleBatches :
        Called([op |-> "predict_batch", data_list |-> data_list,
                out |-> predict_batch(svc, data_list)])

Explain ==
    \E data \in SampleInputs :
        Called([op |-> "explain", data |-> data, out |-> explain(svc, data)])

\* a request to POST /api/v1/predict, served by this service
PredictSingle ==
    \E employee_data \in SampleInputs :
        Called([op |-> "predict_single", data |-> employee_data,
                out |-> predict_single(svc, employee_data)])

Next ==
    \/ Load
    \/ IsLoaded
    \/ GetModelInfo
    \/ PreprocessInput
    \/ Predict
    \/ PredictBatch
    \/ Explain
    \/ PredictSingle

Spec == Init /\ [][Next]_vars

----------------------------------------------------------------------------
(* get_model_service(): the callers' steps, interleaved *)

\* if _model_service is None:
CheckGlobal(c) ==
    /\ pc[c] = "idle"
    /\ pc' = [pc EXCEPT ![c] = IF _model_service = 0 THEN "create" ELSE "return"]
    /\ UNCHANGED <<files, svcvars, _model_service, heap, self, ret, load_calls>>

\* _model_service = ModelService()
CreateInstance(c) ==
    /\ pc[c] = "create"
    /\ heap' = Append(heap, NewModelService)
    /\ _model_service' = Len(heap) + 1
    /\ pc' = [pc EXCEPT ![c] = "call_load"]
    /\ UNCHANGED <<files, svcvars, self, ret, load_calls>>

\* _model_service.load(): the global is read again, load() is entered
CallLoad(c) ==
    /\ pc[c] = "call_load"
    /\ self' = [self EXCEPT ![c] = _model_service]
    /\ load_calls' = load_calls + 1
    /\ pc' = [pc EXCEPT ![c] = "load_model"]
    /\ UNCHANGED <<files, svcvars, _model_service, heap, ret>>

\* one step of load() on the caller's instance: on an exception load() returns
LoadStep(c, at, r, then) ==
    /\ pc[c] = at
    /\ heap' = [heap EXCEPT ![self[c]] = r.svc]
    /\ pc' = [pc EXCEPT ![c] = IF r.raised THEN "return" ELSE then]
    /\ UNCHANGED <<files, svcvars, _model_service, self, ret, load_calls>>

LoadModel(c) ==
    LoadStep(c, "load_model", LoadModelStep(heap[self[c]], model_file), "load_metadata")

LoadMetadata(c) ==
    LoadStep(c, "load_metadata", LoadMetadataStep(heap[self[c]], metadata_file), "extract")

ExtractFeatureInfo(c) ==
    LoadStep(c, "extract", _extract_feature_info(heap[self[c]]), "explainer")

InitExplainer(c) ==
    LoadStep(c, "explainer", InitExplainerStep(heap[self[c]]), "return")

\* return _model_service
ReturnGlobal(c) ==
    /\ pc[c] = "return"
    /\ ret' = [ret EXCEPT ![c] = _model_service]
    /\ pc' = [pc EXCEPT ![c] = "idle"]
    /\ UNCHANGED <<files, svcvars, _model_service, heap, self, load_calls>>

RegistryNext ==
    \E c \in Callers :
        \/ CheckGlobal(c)
        \/ CreateInstance(c)
        \/ CallLoad(c)
        \/ LoadModel(c)
        \/ LoadMetadata(c)
        \/ ExtractFeatureInfo(c)
        \/ InitExplainer(c)
        \/ ReturnGlobal(c)

SpecRegistry == Init /\ [][RegistryNext]_vars

----------------------------------------------------------------------------
(* preprocess_input as a function of the raw mapping *)

KeyUniverse == {"age", "revenu_mensuel", "genre", "departement"}

\* every dict over KeyUniverse with values in 0..MaxValue, in every key order
RawDicts ==
    {d \in UNION {[1..n -> KeyUniverse \X (0..MaxValue)] : n \in 0..Cardinality(KeyUniverse)} :
        \A i, j \in 1..Len(d) : i # j => d[i][1] # d[j][1]}

\* metadata records that split the required names differently, one of them
\* listing a name under both kinds
SchemaFiles ==
    {MetaGood,
     MetaDict(AllMetaKeys, <<"revenu_mensuel">>, <<"departement", "age">>),
     MetaDict(AllMetaKeys, <<>>, <<"genre">>),
     MetaDict(AllMetaKeys, <<"age">>, <<"age", "genre">>)}

\* a service whose load() has run on the files drawn
LoadedFrom(model_files, metadata_files) ==
    /\ model_file \in model_files
    /\ metadata_file \in metadata_files
    /\ svc = load(NewModelService, model_file, metadata_file).svc
    /\ load_ret = <<load(NewModelService, model_file, metadata_file).ret>>
    /\ last = [op |-> "load", out |-> Ok(load_ret[1])]
    /\ history = Untracked
    /\ frame = NoCalls
    /\ origin = Stamp(NoOrigin, load_assigns(NewModelService, model_file, metadata_file))
    /\ RegistryIdle

InitPreprocess == LoadedFrom({PipelineXGB}, SchemaFiles)

\* one call on the loaded service (the call changes nothing a second could read)
PreprocessAny ==
    \E data \in RawDicts :
        /\ last.op = "load"
        /\ last' = [op |-> "preprocess_input", data |-> data,
                    out |-> preprocess_input(svc, data)]
        /\ UNCHANGED <<files, origin, frame, svc, load_ret, history, regvars>>

SpecPreprocess == InitPreprocess /\ [][PreprocessAny]_vars

----------------------------------------------------------------------------
(* predict as a function of the classifier's output *)

Clip(S) == S \cap (0..Scale)

\* p_leave values: around 0, 0.4, 0.5, 0.6 and 1, and an even spread
LeaveOutputs ==
    Clip(UNION {(b - Near)..(b + Near) :
                   b \in {0, (2 * Scale) \div 5, Scale \div 2, (3 * Scale) \div 5, Scale}})
    \cup {(k * Scale) \div Coarse : k \in 0..Coarse}
    \cup {23400}

\* <<p_stay, p_leave>>: summing to 1, or off by one unit (floating tolerance)
ClassifierOutputs ==
    {<<Scale - p, p>> : p \in LeaveOutputs}
    \cup {<<Scale - p - 1, p>> : p \in LeaveOutputs \ {Scale}}

\* the artifacts: a pipeline around a tree model with the drawn pair at one
\* leaf and the mirrored pair at the other
ScoringFiles ==
    {Pipeline(<<Identity3,
                Estimator("XGBClassifier", 3, <<o, <<o[2], o[1]>>>>, XGB3.phi, FALSE)>>) :
        o \in ClassifierOutputs}

ScoringInputs ==
    {ValidInput(a, r, 0) : a, r \in 0..MaxValue}
    \cup {<<(<<"genre", 0>>), <<"age", 1>>, <<"departement", 0>>, <<"revenu_mensuel", 0>>>>}

InitPredict == LoadedFrom(ScoringFiles, {MetaGood})

PredictAny ==
    \E data \in ScoringInputs :
        /\ last.op = "load"
        /\ last' = [op |-> "predict", data |-> data, out |-> predict(svc, data)]
        /\ UNCHANGED <<files, origin, frame, svc, load_ret, history, regvars>>

\* one request to POST /api/v1/predict, served by the loaded service
PredictSingleAny ==
    \E employee_data \in ScoringInputs :
        /\ last.op = "load"
        /\ last' = [op |-> "predict_single", data |-> employee_data,
                    out |-> predict_single(svc, employee_data)]
        /\ UNCHANGED <<files, origin, frame, svc, load_ret, history, regvars>>

PredictNext ==
    \/ PredictAny
    \/ PredictSingleAny

SpecPredict == InitPredict /\ [][PredictNext]_vars

----------------------------------------------------------------------------
(* explain as a function of the artifact's width and contributions *)

\* get_feature_names_out() of a ColumnTransformer(num, cat): prefixed names
TransformedNames ==
    <<"num__age", "num__revenu_mensuel", "cat__genre_0", "cat__genre_1",
      "cat__genre_2", "cat__genre_3", "cat__genre_4", "cat__genre_5">>

\* a preprocessing stage turning the 3 raw columns into n (one-hot widening)
Expand(n, with_names, names_raise, pandas_out) ==
    Transformer([j \in 1..n |-> ((j - 1) % 3) + 1],
                IF with_names THEN SubSeq(TransformedNames, 1, n) ELSE None,
                names_raise, pandas_out)

\* (has get_feature_names_out, it raises, transform returns a DataFrame)
NamedVariants == {<<TRUE, FALSE, FALSE>>, <<TRUE, TRUE, FALSE>>, <<TRUE, FALSE, TRUE>>}
UnnamedVariants == {<<FALSE, FALSE, FALSE>>}

\* numbers of transformed features: fewer than, exactly and more than TopK
Widths == {TopK - 2, TopK, TopK + 2}

\* per-feature contributions (over Scale): large and small ones of both
\* signs, zeros, values below the 4th decimal, and halves of it
ContributionPool ==
    <<0 - 41237, 52004, 0, 4, 0 - 5, 15, 0 - 15, 25, 1500, 0 - 1500>>
SmallPool == {0 - 15, 0 - 5, 0, 4, 15, 25}

\* the rows shap_values can return for n features
Contributions(n) ==
    IF n <= 3 THEN [1..n -> SmallPool]
    ELSE {[i \in 1..n |-> ContributionPool[((a * i + b) % Len(ContributionPool)) + 1]] :
             a \in 1..MaxStride, b \in 0..(Len(ContributionPool) - 1)}

\* a tree model of n features: the row at one leaf, its reverse at the other
TreeModel(n, phi, per_class) ==
    Estimator("XGBClassifier", n, XGB3.leaf, <<phi, Reversed(phi)>>, per_class)

\* the artifacts: pipelines of a widening stage and a tree model
ExplainPipelines(variants) ==
    UNION {{Pipeline(<<Expand(n, v[1], v[2], v[3]), TreeModel(n, phi, per_class)>>) :
               v \in variants, per_class \in BOOLEAN, phi \in Contributions(n)} :
           n \in Widths}

\* and tree models alone, on the raw columns
ExplainTrees ==
    {TreeModel(3, phi, per_class) : per_class \in BOOLEAN, phi \in Contributions(3)}

\* and pipelines of the tree model alone, no stage before it
ExplainBare == {Pipeline(<<m>>) : m \in ExplainTrees}

InitExplain ==
    \/ LoadedFrom(ExplainPipelines(NamedVariants) \cup ExplainTrees \cup ExplainBare,
                  {MetaGood})
    \/ LoadedFrom(ExplainPipelines(UnnamedVariants), {MetaGood})

\* one explain call on the loaded service
ExplainAny ==
    \E data \in ScoringInputs :
        /\ last.op = "load"
        /\ last' = [op |-> "explain", data |-> data, out |-> explain(svc, data)]
        /\ UNCHANGED <<files, origin, frame, svc, load_ret, history, regvars>>

SpecExplain == InitExplain /\ [][ExplainAny]_vars

----------------------------------------------------------------------------
(* repeated calls on one loaded service, observed *)

InitDeterminism ==
    /\ model_file = PipelineXGB
    /\ metadata_file = MetaGood
    /\ svc = load(NewModelService, model_file, metadata_file).svc
    /\ load_ret = <<load(NewModelService, model_file, metadata_file).ret>>
    /\ last = [op |-> "load", out |-> Ok(load_ret[1])]
    /\ history = NoHistory
    /\ frame = NoCalls
    /\ origin = Stamp(NoOrigin, load_assigns(NewModelService, model_file, metadata_file))
    /\ RegistryIdle

SpecDeterminism == InitDeterminism /\ [][Next]_vars

----------------------------------------------------------------------------
(* concurrent callers of one loaded service *)

\* the calls the callers make
ConcurrentCalls ==
    {[op |-> "predict", data |-> ValidInput(a, MaxValue, 0)] : a \in 0..1}
    \cup {[op |-> "explain", data |-> ValidInput(1, MaxValue, 0)],
          [op |-> "preprocess_input", data |-> ValidInput(0, MaxValue, 0)],
          [op |-> "predict_batch",
           data_list |-> <<ValidInput(1, MaxValue, 0), ValidInput(0, MaxValue, 0)>>],
          [op |-> "get_model_info"],
          [op |-> "is_loaded"]}

\* what a call returns on the service as it is
Perform(s, call) ==
    CASE call.op = "predict" -> predict(s, call.data)
      [] call.op = "explain" -> explain(s, call.data)
      [] call.op = "preprocess_input" -> preprocess_input(s, call.data)
      [] call.op = "predict_batch" -> predict_batch(s, call.data_list)
      [] call.op = "get_model_info" -> get_model_info(s)
      [] call.op = "is_loaded" -> Ok(is_loaded(s))

InitConcurrent ==
    /\ model_file \in {PipelineXGB, XGB3}
    /\ metadata_file = MetaGood
    /\ svc = load(NewModelService, model_file, metadata_file).svc
    /\ load_ret = <<load(NewModelService, model_file, metadata_file).ret>>
    /\ last = [op |-> "load", out |-> Ok(load_ret[1])]
    /\ history = Untracked
    /\ frame = NoCalls
    /\ origin = Stamp(NoOrigin, load_assigns(NewModelService, model_file, metadata_file))
    /\ RegistryIdle

\* caller c enters a call; alone is what the call returns when nothing else
\* runs before it returns
Begin(c) ==
    \E call \in ConcurrentCalls :
        /\ frame[c] = Idle
        /\ frame' = [frame EXCEPT ![c] = [at |-> "called", call |-> call,
                                          alone |-> Perform(svc, call),
                                          overlapped |-> FALSE]]
        /\ UNCHANGED <<files, origin, svc, load_ret, last, history, regvars>>

\* the callers other than c that are inside a call have now overlapped one
Overlap(c) ==
    [d \in Callers |->
        IF d = c THEN Idle
        ELSE IF frame[d] = Idle THEN Idle
        ELSE [frame[d] EXCEPT !.overlapped = TRUE]]

\* mutant: the call leaves the service's column list reversed
Finish_ReordersColumns(c) ==
    /\ frame[c] # Idle
    /\ last' = [op |-> frame[c].call.op, call |-> frame[c].call,
                out |-> Perform(svc, frame[c].call),
                alone |-> frame[c].alone, overlapped |-> frame[c].overlapped]
    /\ frame' = Overlap(c)
    /\ svc' = [svc EXCEPT !.feature_columns.all = Reversed(@)]
    /\ UNCHANGED <<files, origin, load_ret, history, regvars>>

\* caller c's call reads the service and returns
Finish(c) ==
    /\ frame[c] # Idle
    /\ last' = [op |-> frame[c].call.op, call |-> frame[c].call,
                out |-> Perform(svc, frame[c].call),
                alone |-> frame[c].alone, overlapped |-> frame[c].overlapped]
    /\ frame' = Overlap(c)
    /\ UNCHANGED <<files, origin, svc, load_ret, history, regvars>>

ConcurrentNext ==
    \E c \in Callers :
        \/ Begin(c)
        \/ Finish(c)

SpecConcurrent == InitConcurrent /\ [][ConcurrentNext]_vars

----------------------------------------------------------------------------
(* load() called again on one service, the files changing in between *)

\* the files at model_path and metadata_path are replaced, removed or restored
ReplaceFiles ==
    /\ model_file' \in ModelFiles
    /\ metadata_file' \in MetadataFiles
    /\ <<model_file', metadata_file'>> # <<model_file, metadata_file>>
    /\ UNCHANGED <<svcvars, regvars>>

ReloadNext ==
    \/ ReplaceFiles
    \/ Load
    \/ IsLoaded
    \/ GetModelInfo
    \/ Predict

SpecReload == Init /\ [][ReloadNext]_vars

----------------------------------------------------------------------------
(* Properties *)

FailedLoad == last.op = "load" /\ last.out = Ok(FALSE)
InferenceOps == {"predict", "predict_batch", "explain"}

\* the required names as the metadata record gives them
Required(s) == s.metadata.features.numeric \o s.metadata.features.categorical

\* a raw mapping with every required key and values the pipeline can coerce
IsValidInput(s, data) ==
    /\ SeqRange(Required(s)) \subseteq DictKeys(data)
    /\ \A k \in SeqRange(Required(s)) : DictGet(data, k) \in 0..MaxValue

\* C1 (as claimed): load() is entered at most once and at most one instance
\* is created, and once a caller has its instance, exactly one of each.
C1_LoadExactlyOnce ==
    /\ load_calls <= 1
    /\ Len(heap) <= 1
    /\ (\E c \in Callers : ret[c] # 0) => (load_calls = 1 /\ Len(heap) = 1)

\* C2 (as claimed): right after a load() that returned False, is_loaded() is False.
C2_FailedLoadIsNotLoaded == FailedLoad => ~is_loaded(svc)

\* C3 (as claimed): after a load() that returned False the four fields are
\* all still None.
C3_FailedLoadKeepsNothing == FailedLoad => svc = NewModelService

\* C4: while is_loaded() is False, predict, predict_batch and explain raise
\* RuntimeError for every input (incomplete ones and the empty batch
\* included), and so did the call just made.
C4_NotLoadedFailsFirst ==
    ~is_loaded(svc) =>
        /\ \A data \in SampleInputs :
               /\ predict(svc, data) = Raise("RuntimeError")
               /\ explain(svc, data) = Raise("RuntimeError")
        /\ \A data_list \in SampleBatches :
               predict_batch(svc, data_list) = Raise("RuntimeError")
        /\ last.op \in InferenceOps => last.out = Raise("RuntimeError")

\* an empty batch handed to a service that holds a model but no metadata
C4_Witness ==
    /\ svc.model # None
    /\ ~is_loaded(svc)
    /\ last.op = "predict_batch"
    /\ last.data_list = <<>>
    /\ last.out = Raise("RuntimeError")

\* C5 (as claimed): once load() has returned False the service is not loaded
\* and every later predict, predict_batch and explain raises RuntimeError.
C5_FailedLoadStaysNotLoaded ==
    load_ret = <<FALSE>> =>
        /\ ~is_loaded(svc)
        /\ last.op \in InferenceOps => last.out = Raise("RuntimeError")

\* C6: a service holding bundle, metadata and feature columns whose
\* classifier the tree explainer does not support: explain raises, predict
\* returns a prediction for every valid input.
ExplainerUnavailable(s) ==
    /\ is_loaded(s)
    /\ s.feature_columns # None
    /\ ~TreeSupported(FinalEstimator(s.model))

C6_PredictWithoutExplainer ==
    ExplainerUnavailable(svc) =>
        /\ \A data \in SampleInputs :
               IsValidInput(svc, data) =>
                   /\ explain(svc, data) = Raise("RuntimeError")
                   /\ predict(svc, data).kind = "ok"
        /\ last.op = "explain" => last.out.kind # "ok"
        /\ (last.op = "predict" /\ IsValidInput(svc, last.data)) => last.out.kind = "ok"

C6_Witness ==
    /\ ExplainerUnavailable(svc)
    /\ load_ret = <<FALSE>>
    /\ last.op = "predict"
    /\ IsValidInput(svc, last.data)
    /\ last.out.kind = "ok"

\* C7: preprocess_input raises ValueError exactly when a required name is
\* not a key of raw, and the error names the missing required keys, all of
\* them and nothing else.
MissingKeys(s, data) == {k \in SeqRange(Required(s)) : k \notin DictKeys(data)}

C7_MissingKeysAllNamed ==
    last.op = "preprocess_input" =>
        /\ last.out.kind \in {"ok", "ValueError"}
        /\ last.out.kind = "ValueError" <=> MissingKeys(svc, last.data) # {}
        /\ last.out.kind = "ValueError" => last.out.missing = MissingKeys(svc, last.data)

\* two required keys missing, a third present
C7_Witness ==
    /\ last.op = "preprocess_input"
    /\ last.out.kind = "ValueError"
    /\ Cardinality(last.out.missing) = 2
    /\ \E k \in SeqRange(Required(svc)) : k \in DictKeys(last.data)

\* C8: with every required key present the result is one row whose columns
\* are numeric ++ categorical in that order, each value raw's value for the
\* key, whatever the order of raw's keys, other keys dropped.
C8_RequiredColumnsInOrder ==
    (last.op = "preprocess_input" /\ MissingKeys(svc, last.data) = {}) =>
        /\ last.out.kind = "ok"
        /\ last.out.value.columns = Required(svc)
        /\ Len(last.out.value.row) = Len(Required(svc))
        /\ \A i \in 1..Len(Required(svc)) :
               last.out.value.row[i] = DictGet(last.data, Required(svc)[i])

\* raw has a key that is not required, and its first key is not the first
\* required one
C8_Witness ==
    /\ last.op = "preprocess_input"
    /\ last.out.kind = "ok"
    /\ Len(Required(svc)) >= 2
    /\ DictKeys(last.data) \ SeqRange(Required(svc)) # {}
    /\ last.data[1][1] # Required(svc)[1]
    /\ last.out.value.columns = Required(svc)

\* the pair the fitted classifier yields for raw
ClassifierPair(s, data) ==
    FinalEstimator(s.model).leaf[IF DictGet(data, "age") = 0 THEN 1 ELSE 2]

Predicted == last.op = "predict" /\ last.out.kind = "ok"

\* C9: will_leave is true if and only if p_leave >= 0.5.
C9_WillLeaveIffHalfOrMore ==
    Predicted =>
        (last.out.value.will_leave <=> 2 * ClassifierPair(svc, last.data)[2] >= Scale)

\* p_leave = 0.5 exactly
C9_Witness ==
    /\ Predicted
    /\ 2 * ClassifierPair(svc, last.data)[2] = Scale
    /\ last.out.value.will_leave

\* C10: risk_level is LOW for 100 * p_leave in [0, 40), MEDIUM in [40, 60),
\* HIGH in [60, 100], and it is _get_risk_level of the probability_leave
\* returned, which is 100 * p_leave.
C10_RiskBands ==
    Predicted =>
        LET pct == 100 * ClassifierPair(svc, last.data)[2]
            risk_level == last.out.value.risk_level
        IN /\ last.out.value.probability_leave = pct
           /\ risk_level = _get_risk_level(pct)
           /\ (0 <= pct /\ pct < 40 * Scale) => risk_level = "LOW"
           /\ (40 * Scale <= pct /\ pct < 60 * Scale) => risk_level = "MEDIUM"
           /\ (60 * Scale <= pct /\ pct <= 100 * Scale) => risk_level = "HIGH"

\* probability_leave = 40 exactly
C10_Witness ==
    /\ Predicted
    /\ last.out.value.probability_leave = 40 * Scale
    /\ last.out.value.risk_level = "MEDIUM"

\* an answered request to POST /api/v1/predict
Served == last.op = "predict_single" /\ last.out.status_code = 200

\* the band of a percentage in the risk table
RiskBand(pct) ==
    IF pct < 40 * Scale THEN "LOW" ELSE IF pct < 60 * Scale THEN "MEDIUM" ELSE "HIGH"

\* C11 (as claimed): in a response of the single-prediction endpoint,
\* risk_level is the band of the probability_leave the response carries
\* (rounded to 2 decimals).
C11_RiskLevelOfReportedProbability ==
    Served =>
        last.out.prediction.risk_level = RiskBand(last.out.prediction.probability_leave)

\* C12: probability_leave is 100 * p_leave and probability_stay is
\* 100 * p_stay, each from its own element of the classifier's pair; when the
\* pair sums to 1 they sum to 100 and both lie in [0, 100].
C12_ProbabilitiesFromOwnElement ==
    Predicted =>
        LET pair == ClassifierPair(svc, last.data)
            probability_leave == last.out.value.probability_leave
            probability_stay == last.out.value.probability_stay
        IN /\ probability_leave = 100 * pair[2]
           /\ probability_stay = 100 * pair[1]
           /\ (pair[1] + pair[2] = Scale) =>
                  /\ probability_leave + probability_stay = 100 * Scale
                  /\ 0 <= probability_leave /\ probability_leave <= 100 * Scale
                  /\ 0 <= probability_stay /\ probability_stay <= 100 * Scale

\* a pair that sums to 1, neither element 0
C12_Witness ==
    /\ Predicted
    /\ ClassifierPair(svc, last.data) = <<Scale - 23400, 23400>>
    /\ last.out.value.probability_leave + last.out.value.probability_stay = 100 * Scale

\* C13: on a loaded service, a predict call with the input of an earlier
\* predict call returns what that call returned, whatever predict,
\* predict_batch, explain, is_loaded or get_model_info calls came in between.
C13_PredictDeterministic ==
    (/\ history.on
     /\ history.first # None
     /\ last.op = "predict"
     /\ last.data = history.first.data)
        => last.out = history.first.out

\* the same input again, after calls of all five kinds, on a loaded service
C13_Witness ==
    /\ history.on
    /\ history.first # None
    /\ is_loaded(svc)
    /\ last.op = "predict"
    /\ last.data = history.first.data
    /\ last.out.kind = "ok"
    /\ last.out.value.will_leave
    /\ history.between = Between

\* C14: on a loaded service (its feature columns extracted), predict_batch
\* of a list of valid inputs returns a list of the same length whose i-th
\* element is what predict returns for the i-th input.
C14_BatchIsElementwise ==
    (/\ last.op = "predict_batch"
     /\ is_loaded(svc)
     /\ svc.feature_columns # None
     /\ \A i \in 1..Len(last.data_list) : IsValidInput(svc, last.data_list[i]))
        => /\ last.out.kind = "ok"
           /\ Len(last.out.value) = Len(last.data_list)
           /\ \A i \in 1..Len(last.data_list) :
                  Ok(last.out.value[i]) = predict(svc, last.data_list[i])

\* a batch of two inputs with different predictions
C14_Witness ==
    /\ last.op = "predict_batch"
    /\ is_loaded(svc)
    /\ Len(last.data_list) = 2
    /\ last.out.kind = "ok"
    /\ last.out.value[1] # last.out.value[2]
    /\ Ok(last.out.value[2]) = predict(svc, last.data_list[2])

Explained == last.op = "explain" /\ last.out.kind = "ok"

\* the number of transformed features the classifier consumes
NumTransformed(s) == FinalEstimator(s.model).n_features_in

\* the names explain gives the transformed features, in column order
ColumnNames(s) ==
    IF ~IsPipeline(s.model) THEN s.feature_columns.all
    ELSE LET stage == s.model.steps[Len(s.model.steps) - 1]
         IN IF stage.names # None /\ (stage.pandas_out \/ ~stage.names_raise)
            THEN stage.names
            ELSE SubSeq(PositionalNames, 1, NumTransformed(s))

\* the contribution (unrounded) of the feature called name, for raw
ContributionOf(s, data, name) ==
    LET phi == FinalEstimator(s.model).phi[IF DictGet(data, "age") = 0 THEN 1 ELSE 2]
        j == CHOOSE i \in 1..Len(ColumnNames(s)) : ColumnNames(s)[i] = name
    IN phi[j]

Min(a, b) == IF a < b THEN a ELSE b

C15_WitnessFew ==
    /\ Explained
    /\ NumTransformed(svc) = 3
    /\ Len(last.out.value) = 3

\* C16: consecutive entries of explain's result are in non-increasing order
\* of absolute contribution, by the contributions themselves and by the
\* shap_value reported (rounded to 4 decimals).
C16_SortedByAbsContribution ==
    Explained =>
        \A i \in 1..(Len(last.out.value) - 1) :
            LET e == last.out.value[i]
                f == last.out.value[i + 1]
            IN /\ Abs(e.shap_value) >= Abs(f.shap_value)
               /\ Abs(ContributionOf(svc, last.data, e.feature))
                      >= Abs(ContributionOf(svc, last.data, f.feature))

\* 5 entries, some pair apart before rounding and equal after, some pair of
\* opposite signs
C16_Witness ==
    /\ Explained
    /\ Len(last.out.value) = 5
    /\ \E i \in 1..4 :
           /\ Abs(ContributionOf(svc, last.data, last.out.value[i].feature))
                  > Abs(ContributionOf(svc, last.data, last.out.value[i + 1].feature))
           /\ Abs(last.out.value[i].shap_value) = Abs(last.out.value[i + 1].shap_value)
    /\ \E i \in 1..4 :
           last.out.value[i].shap_value < 0 /\ last.out.value[i + 1].shap_value > 0

C18_ModelInfoNeverRaises ==
    last.op = "get_model_info" =>
        /\ last.out.kind = "ok"
        /\ ~is_loaded(svc) => last.out.value.keys = {}

\* C19: is_loaded() returns true exactly when self.model and self.metadata
\* are both present, and the call leaves model, metadata, feature_columns and
\* explainer as they were.
C19_IsLoadedPureQuery ==
    [][last'.op = "is_loaded" =>
          /\ last'.out = Ok(svc.model # None /\ svc.metadata # None)
          /\ svc' = svc]_vars

\* is_loaded() answered False on a service holding a model and no metadata
C19_Witness ==
    /\ last.op = "is_loaded"
    /\ last.out = Ok(FALSE)
    /\ svc.model # None
    /\ svc.metadata = None

\* C20: after a successful load(), whatever predict, predict_batch, explain,
\* preprocess_input, get_model_info and is_loaded calls the callers make and
\* however they interleave, the four fields stay as load() left them, and
\* every call returns what it returns when run alone.
C20_ReadOnlyAfterLoad ==
    /\ load_ret = <<TRUE>>
    /\ svc = load(NewModelService, model_file, metadata_file).svc
    /\ last.op # "load" => last.out = last.alone

\* a predict that returned while an explain was in progress, after another
\* call had returned during it
C20_Witness ==
    /\ last.op = "predict"
    /\ last.overlapped
    /\ last.out.kind = "ok"
    /\ \E d \in Callers : frame[d] # Idle /\ frame[d].call.op = "explain"

\* C21 (as claimed): a caller that has been handed an instance by
\* get_model_service() is handed that same instance by every later call, and
\* none of its later calls creates an instance or enters load().
C21_SameInstanceNeverReloaded ==
    [][\A c \in Callers :
          ret[c] # 0 =>
              /\ ret'[c] = ret[c]
              /\ pc'[c] \notin {"create", "call_load", "load_model"}]_vars

\* C22 (as claimed): at the single-prediction endpoint a call on a
\* not-loaded service is answered 503 (the core raises RuntimeError), a
\* missing required feature 422 (the core raises ValueError), and every
\* other failure of the core, raised while transforming or scoring, 500 with
\* the fixed message, never 422 and never the exception's own text.
C22_ThreeDistinctKinds ==
    last.op = "predict_single" =>
        LET core == predict(svc, last.data)
            missing == core.kind = "ValueError" /\ "missing" \in DOMAIN core
        IN /\ ~is_loaded(svc) =>
                  /\ core.kind = "RuntimeError"
                  /\ last.out = HTTPException(503, "Model not loaded")
           /\ (is_loaded(svc) /\ missing) => last.out.status_code = 422
           /\ (is_loaded(svc) /\ core.kind # "ok" /\ ~missing) =>
                  last.out = HTTPException(500, "Failed to generate prediction")

\* the features explain's result names
Returned == {last.out.value[i].feature : i \in 1..Len(last.out.value)}

\* C24: every entry explain returns pairs a transformed feature with that
\* feature's own contribution (rounded to 4 decimals), and no transformed
\* feature left out has a larger absolute contribution than a returned one.
C24_TopContributionsAligned ==
    Explained =>
        /\ \A i \in 1..Len(last.out.value) :
               LET e == last.out.value[i]
               IN /\ e.feature \in SeqRange(ColumnNames(svc))
                  /\ e.shap_value = round(ContributionOf(svc, last.data, e.feature), Decimals4)
        /\ \A name \in SeqRange(ColumnNames(svc)) \ Returned :
               \A kept \in Returned :
                   Abs(ContributionOf(svc, last.data, name))
                       <= Abs(ContributionOf(svc, last.data, kept))

\* 7 transformed features, one left out with a contribution that is not zero
\* and one returned with a strictly larger one
C24_Witness ==
    /\ Explained
    /\ NumTransformed(svc) = 7
    /\ Len(last.out.value) = 5
    /\ \E name \in SeqRange(ColumnNames(svc)) \ Returned :
           /\ ContributionOf(svc, last.data, name) # 0
           /\ \E kept \in Returned :
                  Abs(ContributionOf(svc, last.data, name))
                      < Abs(ContributionOf(svc, last.data, kept))

\* the names the claim gives the transformed features of a pipeline
ClaimedNames(s) ==
    LET steps == s.model.steps
    IN IF Len(steps) >= 2 /\ steps[Len(steps) - 1].names # None
              /\ ~steps[Len(steps) - 1].names_raise
       THEN steps[Len(steps) - 1].names
       ELSE SubSeq(PositionalNames, 1, NumTransformed(s))

\* C25 (as claimed): on a pipeline artifact explain names the transformed
\* features as the last preprocessing stage does when it can be asked and
\* answers, and feature_0, feature_1, ... otherwise, and it does not fail,
\* a pipeline with no stage before the classifier included.
C25_NamesRecoveredOrSynthesized ==
    (last.op = "explain" /\ IsPipeline(svc.model)) =>
        /\ last.out.kind = "ok"
        /\ Returned \subseteq SeqRange(ClaimedNames(svc))

\* C26 (as claimed): whatever load() calls were made, the fields the service
\* holds (those not None) were all assigned by the same load() call.
C26_FieldsFromOneLoad ==
    \A f, g \in Fields :
        (svc[f] # None /\ svc[g] # None) => origin[f] = origin[g]

\* C27 (as claimed): whenever is_loaded() is true, feature_columns is set
\* and feature_columns["all"] is the metadata's numeric features followed by
\* its categorical features.
C27_LoadedHasFeatureColumns ==
    is_loaded(svc) =>
        /\ svc.feature_columns # None
        /\ svc.feature_columns.all = Required(svc)

\* caller d is about to enter load() on instance i, or is inside it
LoadPending(d, i) ==
    \/ pc[d] = "call_load" /\ _model_service = i
    \/ pc[d] \in {"load_model", "load_metadata", "extract", "explainer"} /\ self[d] = i

\* C28 (as claimed): no caller holds an instance handed out by
\* get_model_service() while a load() on that instance is still to run or
\* running.
C28_NeverHandedOutBeforeLoaded ==
    \A c \in Callers :
        ret[c] # 0 => ~(\E d \in Callers : LoadPending(d, ret[c]))

\* C29: in every result of predict, will_leave implies MEDIUM or HIGH, HIGH
\* implies will_leave, and LOW implies not will_leave.
C29_WillLeaveConsistentWithRisk ==
    Predicted =>
        LET will_leave == last.out.value.will_leave
            risk_level == last.out.value.risk_level
        IN /\ will_leave => risk_level \in {"MEDIUM", "HIGH"}
           /\ risk_level = "HIGH" => will_leave
           /\ risk_level = "LOW" => ~will_leave

\* the band both decisions share: a leaver at MEDIUM risk
C29_Witness ==
    /\ Predicted
    /\ last.out.value.will_leave
    /\ last.out.value.risk_level = "MEDIUM"
    /\ last.out.value.probability_leave > 50 * Scale

\* C30 (as claimed): in every entry explain returns, impact agrees with the
\* sign of the shap_value of the same entry, the value rounded to 4 decimals.
C30_ImpactOfReportedValue ==
    Explained =>
        \A i \in 1..Len(last.out.value) :
            LET entry == last.out.value[i]
            IN /\ entry.shap_value > 0 <=> entry.impact = "increases risk"
               /\ entry.shap_value < 0 <=> entry.impact = "decreases risk"
               /\ entry.shap_value = 0 <=> entry.impact = "neutral"

====
